---- MODULE Spec2Model ----
(***************************************************************************)
(* Model of the transcript store of the Discord dungeon-master bot:        *)
(* DatabaseHandler (Firestore-backed per-user history with consolidation)  *)
(* driven by the game loop of DiscordHandler.on_message.                   *)
(*                                                                         *)
(* The bot runs on one asyncio event loop: the code between two awaits is  *)
(* atomic, and every await of a store or provider call is a point where    *)
(* another on_message task may run.  Each action below is one such         *)
(* segment, ending in the effect of the awaited call.                      *)
(***************************************************************************)
EXTENDS Integers, Sequences, FiniteSets, TLC

\* ---------------------------------------------------------------- constants

\* DatabaseHandler.py:5-6
HISTORY_LIMIT == 100
TURNS_TO_KEEP == 6

\* ConfigurationHelper.SYSTEM_PROMPT (the persona prompt, abbreviated)
SYSTEM_PROMPT == "You are the Dungeon Master."
\* DatabaseHandler.py:46
INITIAL_ACK == "Understood. The world is ready. I will await the adventurers."
\* DatabaseHandler.py:133
SUMMARY_ACK == "Understood. Let's continue."
\* LLMHandler.py:173
SUMMARY_PLACEHOLDER == "[Summary could not be generated due to an error.]"
\* LLMHandler.py:47
GENERATION_FALLBACK == "The world seems to shimmer and fade for a moment. I... I lost my train of thought. Can you repeat that?"
\* DiscordHandler.py:68
SILENCE_MESSAGE == "A strange silence fills the air... (The DM seems to have lost their train of thought.)"
\* DiscordHandler.py:37
NEWGAME_MESSAGE == "The mists clear, and a new adventure begins for you... (Your story has been reset). What do you do?"

\* ------------------------------------------------------------ bounded inputs

Users == {"u1", "u2"}
Tasks == {"t1", "t2"}

\* the users whose messages a task handles: one task serves the first user,
\* the other serves either, so that two tasks of one user and two tasks of
\* different users both occur
Senders(t) == IF t = "t1" THEN {"u1"} ELSE Users

\* message.author.name of each user id
AuthorName(u) == IF u = "u1" THEN "Ann" ELSE "Bob"

\* message texts a user sends (after the mention is stripped); "m99" is also
\* the text of the last user turn of a grown transcript
Messages == {"hi", "m99", "!newgame"}

\* texts the generation model returns on success (response.text)
ResponseTexts == {"You enter the cave.", ""}

\* summaries the model returns on success (before strip)
SummaryTexts == {" - the party met Blorf "}

\* the longest entity list an extraction returns
MaxEntities == 2

\* how many turns below HISTORY_LIMIT the shortest stored transcript is
MaxBelowLimit == 1

\* name of the i-th entity of an extraction
EntityName(i) == IF i = 1 THEN "Blorf" ELSE IF i = 2 THEN "The Gilded Mug" ELSE "Entity " \o ToString(i)

\* the entity lists an extraction returns (entities by name)
ExtractedLists == {[i \in 1..n |-> EntityName(i)] : n \in 0..MaxEntities}

\* ------------------------------------------------------------------- turns

\* {'role': role, 'parts': [text]}   DatabaseHandler.py:82
Turn(role, text) == [role |-> role, parts |-> <<text>>]

\* DatabaseHandler.py:44-47
get_initial_history == << Turn("user", SYSTEM_PROMPT), Turn("model", INITIAL_ACK) >>

\* f"{message.author.name} says: {user_message}"   DiscordHandler.py:56
full_user_message(u, m) == AuthorName(u) \o " says: " \o m

\* str.strip() on the summaries of SummaryTexts   LLMHandler.py:168
Strip(s) == IF s = " - the party met Blorf " THEN "- the party met Blorf" ELSE s

\* a slice that starts one turn early: history[-(k+1):]
SliceLast_OneMore(h, k) == IF Len(h) <= k + 1 THEN h ELSE SubSeq(h, Len(h) - k, Len(h))

\* history[-k:]  (k > 0)   DatabaseHandler.py:108
SliceLast(h, k) == IF Len(h) <= k THEN h ELSE SubSeq(h, Len(h) - k + 1, Len(h))

\* firestore.ArrayUnion([e]) applied to a stored array: the element is added
\* at the end only if the array does not already hold an equal element
ArrayUnion(arr, e) == IF \E i \in 1..Len(arr) : arr[i] = e THEN arr ELSE Append(arr, e)

\* a Firestore document of dnd_sessions: absent, or {'history': [...]}
NoDoc == [exists |-> FALSE, history |-> <<>>]
Doc(h) == [exists |-> TRUE, history |-> h]

\* A transcript grown from the seed by n-2 appended turns of alternating
\* roles with pairwise different texts (what sequential turns of user u
\* leave in the store).
Grown(u, n) == [i \in 1..n |-> IF i <= 2 THEN get_initial_history[i] ELSE IF i % 2 = 1 THEN Turn("user", full_user_message(u, "m" \o ToString(i))) ELSE Turn("model", "r" \o ToString(i))]

\* the documents the store may hold when the bot starts
\* (absent, or grown to just below or to the limit)
StoredDocs(u) == IF u = "u1" THEN {NoDoc} \cup {Doc(Grown(u, n)) : n \in (HISTORY_LIMIT - MaxBelowLimit)..HISTORY_LIMIT} ELSE {NoDoc, Doc(Grown(u, HISTORY_LIMIT))}

\* ------------------------------------------------------------------- state

VARIABLES
  doc,          \* sessions_collection: user id -> document
  handlersSet,  \* llm_handler, graph_handler and vector_store_handler are all set
  pc,           \* task -> the await it is suspended at
  uid,          \* task -> user_id of its message
  msg,          \* task -> user_message
  phase,        \* task -> "user" (add_message, line 57), "gen" (get_history, line 59), "model" (add_message, line 62)
  cur,          \* task -> current_history read by add_message, kept while consolidation runs
  truncCalled,  \* task -> this add_message called _truncate_and_update_world_state
  rewrote,      \* task -> overwrite_history of this add_message returned True
  entities,     \* task -> entities returned by the extraction
  idx,          \* task -> position of the entity loop
  summary,      \* task -> summary returned by summarize_history
  history,      \* task -> history read at line 59
  resp,         \* task -> dm_response
  sent,         \* task -> text sent to the channel ("" before the send)
  graph,        \* the Neo4j database: nodes, relationships, next node identity
  vec,          \* the ChromaDB collections: user id -> collection "user_<id>"
  pidx,         \* task -> position of add_or_update_entity in properties.items()
  pass,         \* task -> consolidations of the entity loop it has started
  upserted,     \* task -> names of the entities whose graph upsert returned in this consolidation
  failed,       \* task -> a graph statement of this task has raised
  prev,         \* task -> entity list and stores at the end of its previous consolidation
  vcall,        \* task -> the VectorStoreHandler call it is in: method and arguments
  vres,         \* what the last VectorStoreHandler call to return handed back and logged
  gcall,        \* task -> the get_entity_context call it is in: its arguments
  gres,         \* what the last get_entity_context call to end returned or raised
  pending       \* CommandHandler.pending_confirmations: whether the attribute exists, and the users in it

\* the enrichment stores and the bookkeeping of the entity loop
vector == << vec, vcall, vres >>
context == << gcall, gres >>
world == << graph, vector, context, pending, pidx, pass, upserted, failed, prev >>

vars == << doc, handlersSet, pc, uid, msg, phase, cur, truncCalled, rewrote, entities, idx, summary, history, resp, sent, world >>

locals == << uid, msg, phase, cur, truncCalled, rewrote, entities, idx, summary, history, resp, sent >>

\* GraphHandler.__init__ and VectorStoreHandler.__init__ on empty stores:
\* no node, no relationship, no collection; no consolidation has run
EmptyGraph == [nodes |-> {}, edges |-> {}, next |-> 1]
NoCollection == [exists |-> FALSE, entries |-> {}]
NoCall == [op |-> "none", user |-> "u1", text |-> "", id |-> "", n |-> 0]
NoResult == [op |-> "none", user |-> "u1", text |-> "", id |-> "", raised |-> FALSE, ids |-> <<>>, log |-> ""]
NoContextCall == [user |-> "u1", name |-> ""]
NoContext == [op |-> "none", user |-> "u1", name |-> "", raised |-> FALSE, value |-> <<>>]
\* CommandHandler.__init__ sets game_manager, graph_handler,
\* vector_store_handler, client and commands, and no pending_confirmations
\* CommandHandler.py:42-58
NoPending == [defined |-> FALSE, users |-> {}]
NoPrev == [valid |-> FALSE, uid |-> "u1", list |-> <<>>, graph |-> [nodes |-> {}, edges |-> {}], vec |-> [u \in Users |-> NoCollection]]

InitWorldVars ==
  /\ graph = EmptyGraph
  /\ vec = [u \in Users |-> NoCollection]
  /\ pidx = [t \in Tasks |-> 0]
  /\ pass = [t \in Tasks |-> 0]
  /\ upserted = [t \in Tasks |-> {}]
  /\ failed = [t \in Tasks |-> FALSE]
  /\ prev = [t \in Tasks |-> NoPrev]
  /\ vcall = [t \in Tasks |-> NoCall]
  /\ vres = NoResult
  /\ gcall = [t \in Tasks |-> NoContextCall]
  /\ gres = NoContext
  /\ pending = NoPending

\* DatabaseHandler.__init__ (handlers are None) on top of whatever the
\* durable store holds; no on_message task has started
Init ==
  /\ doc \in [Users -> UNION {StoredDocs(u) : u \in Users}]
  /\ \A u \in Users : doc[u] \in StoredDocs(u)
  /\ handlersSet = FALSE
  /\ pc = [t \in Tasks |-> "idle"]
  /\ uid = [t \in Tasks |-> "u1"]
  /\ msg = [t \in Tasks |-> ""]
  /\ phase = [t \in Tasks |-> "user"]
  /\ cur = [t \in Tasks |-> <<>>]
  /\ truncCalled = [t \in Tasks |-> FALSE]
  /\ rewrote = [t \in Tasks |-> FALSE]
  /\ entities = [t \in Tasks |-> <<>>]
  /\ idx = [t \in Tasks |-> 0]
  /\ summary = [t \in Tasks |-> ""]
  /\ history = [t \in Tasks |-> <<>>]
  /\ resp = [t \in Tasks |-> ""]
  /\ sent = [t \in Tasks |-> ""]
  /\ InitWorldVars

\* the turn the add_message of task t appends   DiscordHandler.py:56-57, 62
NewTurn(t) == IF phase[t] = "user" THEN Turn("user", full_user_message(uid[t], msg[t])) ELSE Turn("model", resp[t])

\* ----------------------------------------------------------------- actions

\* DatabaseHandler.set_handlers
set_handlers ==
  /\ handlersSet = FALSE
  /\ \A t \in Tasks : pc[t] = "idle"
  /\ handlersSet' = TRUE
  /\ UNCHANGED << doc, pc, locals, world >>

\* DiscordHandler.on_message up to its first await: a message that mentions
\* the bot or starts with '!' arrives; '!newgame' goes to the reset branch,
\* anything else enters the game loop and calls add_message(user_id, 'user', ...)
on_message_of(t, u, m) ==
  /\ pc[t] = "idle"
  /\ uid' = [uid EXCEPT ![t] = u]
  /\ msg' = [msg EXCEPT ![t] = m]
  /\ pc' = [pc EXCEPT ![t] = IF m = "!newgame" THEN "reset" ELSE "gh_ensure_get"]
  /\ phase' = [phase EXCEPT ![t] = "user"]
  /\ UNCHANGED << doc, handlersSet, cur, truncCalled, rewrote, entities, idx, summary, history, resp, sent, world >>

on_message(t) == \E u \in Senders(t), m \in Messages : on_message_of(t, u, m)

\* DatabaseHandler.reset_history: set({'history': initial})
reset_history(t) ==
  /\ pc[t] = "reset"
  /\ doc' = [doc EXCEPT ![uid[t]] = Doc(get_initial_history)]
  /\ pc' = [pc EXCEPT ![t] = "reset_send"]
  /\ UNCHANGED << handlersSet, locals, world >>

\* DiscordHandler.on_message, '!newgame' branch: the confirmation is sent
reset_send(t) ==
  /\ pc[t] = "reset_send"
  /\ sent' = [sent EXCEPT ![t] = NEWGAME_MESSAGE]
  /\ pc' = [pc EXCEPT ![t] = "done"]
  /\ UNCHANGED << doc, handlersSet, uid, msg, phase, cur, truncCalled, rewrote, entities, idx, summary, history, resp, world >>

\* _ensure_user_document_exists, the await of user_doc_ref.get(): the
\* snapshot decides whether the seed will be written
ensure_get(t) ==
  /\ pc[t] \in {"gh_ensure_get", "am_ensure_get"}
  /\ pc' = [pc EXCEPT ![t] = IF doc[uid[t]].exists THEN (IF pc[t] = "gh_ensure_get" THEN "gh_get" ELSE "am_update") ELSE (IF pc[t] = "gh_ensure_get" THEN "gh_ensure_set" ELSE "am_ensure_set")]
  /\ UNCHANGED << doc, handlersSet, locals, world >>

\* _ensure_user_document_exists, the await of user_doc_ref.set(seed), taken
\* when the snapshot did not exist
ensure_set(t) ==
  /\ pc[t] \in {"gh_ensure_set", "am_ensure_set"}
  /\ doc' = [doc EXCEPT ![uid[t]] = Doc(get_initial_history)]
  /\ pc' = [pc EXCEPT ![t] = IF pc[t] = "gh_ensure_set" THEN "gh_get" ELSE "am_update"]
  /\ UNCHANGED << handlersSet, locals, world >>

\* the history consolidation writes   DatabaseHandler.py:107-109, 130-135
new_history(h, sum) == << h[1], Turn("user", "[The story so far: " \o sum \o "]"), Turn("model", SUMMARY_ACK) >> \o SliceLast(h, TURNS_TO_KEEP)

\* a limit test that fires one turn early: len(history) >= HISTORY_LIMIT - 1
LimitReached_OneEarly(h) == Len(h) >= HISTORY_LIMIT - 1

\* add_message's test of the history it read   DatabaseHandler.py:78
LimitReached(h) == Len(h) >= HISTORY_LIMIT

\* get_history, the await of user_doc_ref.get() after the ensure, and what
\* follows up to the next await.  In add_message: the limit test, and on a
\* reached limit the call of _truncate_and_update_world_state, which returns
\* at once when a handler is missing.  At line 59 of on_message: the history
\* handed to the generation.
get_history(t) ==
  /\ pc[t] = "gh_get"
  /\ LET h == doc[uid[t]].history IN
       IF phase[t] = "gen"
       THEN /\ history' = [history EXCEPT ![t] = h]
            /\ pc' = [pc EXCEPT ![t] = "generate"]
            /\ UNCHANGED << cur, truncCalled >>
       ELSE /\ truncCalled' = [truncCalled EXCEPT ![t] = LimitReached(h)]
            /\ cur' = [cur EXCEPT ![t] = IF LimitReached(h) /\ handlersSet THEN h ELSE <<>>]
            /\ pc' = [pc EXCEPT ![t] = IF LimitReached(h) /\ handlersSet THEN "extract" ELSE "am_ensure_get"]
            /\ UNCHANGED history
  /\ UNCHANGED << doc, handlersSet, uid, msg, phase, rewrote, entities, idx, summary, resp, sent, world >>

\* LLMHandler.extract_world_state_from_history: the parsed entity list, or
\* [] when the call or the parse fails   LLMHandler.py:130-146
extract_world_state_from_history(ok, list) == IF ok THEN list ELSE <<>>

\* _truncate_and_update_world_state, step 1: the await of the extraction
extract(t) ==
  /\ pc[t] = "extract"
  /\ \E ok \in BOOLEAN, list \in ExtractedLists :
       LET es == extract_world_state_from_history(ok, list) IN
         /\ entities' = [entities EXCEPT ![t] = es]
         /\ idx' = [idx EXCEPT ![t] = IF es = <<>> THEN 0 ELSE 1]
         /\ pc' = [pc EXCEPT ![t] = IF es = <<>> THEN "summarize" ELSE "entity"]
  /\ UNCHANGED << doc, handlersSet, uid, msg, phase, cur, truncCalled, rewrote, summary, history, resp, sent, world >>

\* an entity loop that stops at the first entity whose upsert raises
process_entity_StopsEarly(t) ==
  /\ pc[t] = "entity"
  /\ \E outcome \in {"returned", "raised", "malformed"} :
       /\ idx' = [idx EXCEPT ![t] = IF outcome = "malformed" THEN @ ELSE IF idx[t] < Len(entities[t]) /\ outcome = "returned" THEN idx[t] + 1 ELSE 0]
       /\ entities' = [entities EXCEPT ![t] = IF outcome = "malformed" \/ (idx[t] < Len(entities[t]) /\ outcome = "returned") THEN entities[t] ELSE <<>>]
       /\ pc' = [pc EXCEPT ![t] = IF outcome = "malformed" THEN "raised" ELSE IF idx[t] < Len(entities[t]) /\ outcome = "returned" THEN "entity" ELSE "summarize"]
  /\ UNCHANGED << doc, handlersSet, uid, msg, phase, cur, truncCalled, rewrote, summary, history, resp, sent, world >>

\* _truncate_and_update_world_state, step 2, one entity of the loop: the
\* await of graph_handler.add_or_update_entity, which returns None or
\* raises; the except of the loop body logs and goes on.  No node id comes
\* back, so the vector store is not called.  On an entity that is not a
\* dict the except clause itself raises (entity.get('name')) and the
\* exception leaves add_message and on_message.  SpecWorld follows the
\* statements of the call and what they write.
process_entity(t) ==
  /\ pc[t] = "entity"
  /\ \E outcome \in {"returned", "raised", "malformed"} :
       /\ idx' = [idx EXCEPT ![t] = IF outcome = "malformed" THEN @ ELSE IF idx[t] < Len(entities[t]) THEN idx[t] + 1 ELSE 0]
       /\ entities' = [entities EXCEPT ![t] = IF outcome = "malformed" \/ idx[t] < Len(entities[t]) THEN entities[t] ELSE <<>>]
       /\ pc' = [pc EXCEPT ![t] = IF outcome = "malformed" THEN "raised" ELSE IF idx[t] < Len(entities[t]) THEN "entity" ELSE "summarize"]
  /\ UNCHANGED << doc, handlersSet, uid, msg, phase, cur, truncCalled, rewrote, summary, history, resp, sent, world >>

\* a summarize_history without its except clause: a failed call raises
summarize_history_Raises(ok, text) == [raised |-> ~ok, value |-> IF ok THEN Strip(text) ELSE ""]

\* LLMHandler.summarize_history: the stripped text, or the placeholder when
\* the model call fails; it never raises   LLMHandler.py:165-173
summarize_history(ok, text) == [raised |-> FALSE, value |-> IF ok THEN Strip(text) ELSE SUMMARY_PLACEHOLDER]

\* _truncate_and_update_world_state, step 3: the await of the summary, for
\* one outcome of the model call (ok, the text it returns)
summarize_outcome(t, ok, text) ==
  /\ pc[t] = "summarize"
  /\ LET r == summarize_history(ok, text) IN
       /\ summary' = [summary EXCEPT ![t] = IF r.raised THEN "" ELSE r.value]
       /\ pc' = [pc EXCEPT ![t] = IF r.raised THEN "raised" ELSE "overwrite"]
       /\ cur' = [cur EXCEPT ![t] = IF r.raised THEN <<>> ELSE cur[t]]
  /\ UNCHANGED << doc, handlersSet, uid, msg, phase, truncCalled, rewrote, entities, idx, history, resp, sent, world >>

summarize(t) == \E ok \in BOOLEAN, text \in SummaryTexts : summarize_outcome(t, ok, text)

\* DatabaseHandler.overwrite_history: the await of set({'history': new_history});
\* a store failure is logged and False is returned   DatabaseHandler.py:90-98
overwrite_history(t) ==
  /\ pc[t] = "overwrite"
  /\ \E ok \in BOOLEAN :
       /\ doc' = [doc EXCEPT ![uid[t]] = IF ok THEN Doc(new_history(cur[t], summary[t])) ELSE @]
       /\ rewrote' = [rewrote EXCEPT ![t] = ok]
  /\ cur' = [cur EXCEPT ![t] = <<>>]
  /\ summary' = [summary EXCEPT ![t] = ""]
  /\ pc' = [pc EXCEPT ![t] = "am_ensure_get"]
  /\ UNCHANGED << handlersSet, uid, msg, phase, truncCalled, entities, idx, history, resp, sent, world >>

\* add_message, the await of user_doc_ref.update(ArrayUnion([turn])), and the
\* return to on_message: after the user turn the history is read for the
\* generation, after the model turn the response is sent
add_message_update(t) ==
  /\ pc[t] = "am_update"
  /\ doc' = [doc EXCEPT ![uid[t]] = Doc(ArrayUnion(@.history, NewTurn(t)))]
  /\ truncCalled' = [truncCalled EXCEPT ![t] = FALSE]
  /\ rewrote' = [rewrote EXCEPT ![t] = FALSE]
  /\ phase' = [phase EXCEPT ![t] = IF phase[t] = "user" THEN "gen" ELSE phase[t]]
  /\ pc' = [pc EXCEPT ![t] = IF phase[t] = "user" THEN "gh_ensure_get" ELSE "send"]
  /\ UNCHANGED << handlersSet, uid, msg, cur, entities, idx, summary, history, resp, sent, world >>

\* LLMHandler.generate_response: response.text, or the fallback text when
\* the model call fails   LLMHandler.py:32-47
generate_response(ok, text) == IF ok THEN text ELSE GENERATION_FALLBACK

\* on_message, the await of llm.generate_response(history); then
\* add_message(user_id, 'model', dm_response) is called
generate(t) ==
  /\ pc[t] = "generate"
  /\ \E ok \in BOOLEAN, text \in ResponseTexts :
       resp' = [resp EXCEPT ![t] = generate_response(ok, text)]
  /\ history' = [history EXCEPT ![t] = <<>>]
  /\ phase' = [phase EXCEPT ![t] = "model"]
  /\ pc' = [pc EXCEPT ![t] = "gh_ensure_get"]
  /\ UNCHANGED << doc, handlersSet, uid, msg, cur, truncCalled, rewrote, entities, idx, summary, sent, world >>

\* an on_message that sends as soon as the response is generated, before
\* the model turn is written
send_BeforeWrite(t) ==
  /\ pc[t] \in {"send", "gh_ensure_get"}
  /\ phase[t] = "model"
  /\ sent' = [sent EXCEPT ![t] = IF resp[t] # "" THEN resp[t] ELSE SILENCE_MESSAGE]
  /\ pc' = [pc EXCEPT ![t] = "done"]
  /\ UNCHANGED << doc, handlersSet, uid, msg, phase, cur, truncCalled, rewrote, entities, idx, summary, history, resp, world >>

\* on_message, the await of message.channel.send: the response, or the
\* silence line when the response is empty   DiscordHandler.py:63-68
send(t) ==
  /\ pc[t] = "send"
  /\ sent' = [sent EXCEPT ![t] = IF resp[t] # "" THEN resp[t] ELSE SILENCE_MESSAGE]
  /\ pc' = [pc EXCEPT ![t] = "done"]
  /\ UNCHANGED << doc, handlersSet, uid, msg, phase, cur, truncCalled, rewrote, entities, idx, summary, history, resp, world >>

Next ==
  \/ set_handlers
  \/ \E t \in Tasks :
       \/ on_message(t)
       \/ reset_history(t)
       \/ reset_send(t)
       \/ ensure_get(t)
       \/ ensure_set(t)
       \/ get_history(t)
       \/ extract(t)
       \/ process_entity(t)
       \/ summarize(t)
       \/ overwrite_history(t)
       \/ add_message_update(t)
       \/ generate(t)
       \/ send(t)

Spec == Init /\ [][Next]_vars

\* ------------------------------------------------- the enrichment stores

\* an element of the list the extraction returns: a JSON object (a dict with
\* its "name", "type" and "properties" items in order; "" stands for a
\* missing key), or a JSON value that is not an object
Entity(name, type, properties) == [dict |-> TRUE, name |-> name, type |-> type, properties |-> properties]
NotADict == [dict |-> FALSE, name |-> "", type |-> "", properties |-> <<>>]

Blorf == Entity(EntityName(1), "Character", << <<"workplace", EntityName(2)>>, <<"mood", "Grumpy">> >>)
BlorfHappy == Entity(EntityName(1), "Character", << <<"mood", "Happy">> >>)
GildedMug == Entity(EntityName(2), "Location", <<>>)
Renamed == Entity(EntityName(1), "Character", << <<"name", "Sir Blorf">> >>)
Moved == Entity(EntityName(1), "Character", << <<"userId", "u2">> >>)
Nameless == Entity("", "", <<>>)

\* the entities and the entity lists the analyst model is made to return
WorldEntities == {Blorf, BlorfHappy, GildedMug, Renamed, Moved, Nameless, NotADict}
WorldLists == {<<>>} \cup {<<e>> : e \in WorldEntities} \cup {<<Blorf, GildedMug>>, <<NotADict, GildedMug>>, <<Nameless, GildedMug>>}

\* what the extraction call can come back with   LLMHandler.py:130-146
ExtractionKinds == {"ok", "api_error", "invalid_json", "not_an_object", "entities_not_a_list"}

\* consolidations run in all, one after the other or two at a time
MaxPasses == 2

\* entity.get("type", "Thing")   GraphHandler.py:79
entity_type(e) == IF e.type = "" THEN "Thing" ELSE e.type

\* the properties dict as Cypher receives it ($props)
PropsMap(ps) == [k \in {ps[i][1] : i \in DOMAIN ps} |-> ps[CHOOSE i \in DOMAIN ps : ps[i][1] = k][2]]

\* key.upper()   GraphHandler.py:116
Upper(k) == CASE k = "workplace" -> "WORKPLACE" [] k = "mood" -> "MOOD" [] k = "name" -> "NAME" [] k = "userId" -> "USERID" [] OTHER -> k

\* the {name: ..., userId: ...} map of a Cypher node pattern
Identity(name, u) == [k \in {"name", "userId"} |-> IF k = "name" THEN name ELSE u]

\* Cypher SET n += $props: the keys of props are written, the others stay
SetPlus(old, props) == [k \in DOMAIN old \cup DOMAIN props |-> IF k \in DOMAIN props THEN props[k] ELSE old[k]]

\* the nodes a pattern (n:label {name: ..., userId: ...}) matches; the
\* pattern of the relationship target has no label and matches any node
MatchNodes(G, label, name, u) == {n \in G.nodes : (label = "" \/ n.label = label) /\ n.props["name"] = name /\ n.props["userId"] = u}

\* CREATE of one node with the pattern's label and map
CreateNode(G, label, name, u) == [G EXCEPT !.nodes = @ \cup {[id |-> G.next, label |-> label, props |-> Identity(name, u)]}, !.next = @ + 1]

\* step 1 of add_or_update_entity: MERGE (n:Type {name, userId}) ON CREATE
\* SET n += $props ON MATCH SET n += $props   GraphHandler.py:89-99
MergeEntity(G, label, name, u, props) ==
  LET G1 == IF MatchNodes(G, label, name, u) = {} THEN CreateNode(G, label, name, u) ELSE G
      M == MatchNodes(G1, label, name, u)
  IN [G1 EXCEPT !.nodes = (@ \ M) \cup {[n EXCEPT !.props = SetPlus(n.props, props)] : n \in M}]

\* step 2 of add_or_update_entity, one string-valued property: MATCH the
\* source, MERGE (target {name, userId}), MERGE (source)-[:KEY]->(target)
\* GraphHandler.py:110-122
LinkProperty(G, label, source_name, u, key, target_name) ==
  LET S == MatchNodes(G, label, source_name, u)
      G1 == IF MatchNodes(G, "", target_name, u) = {} THEN CreateNode(G, "", target_name, u) ELSE G
      T == MatchNodes(G1, "", target_name, u)
  IN IF S = {} THEN G
     ELSE [G1 EXCEPT !.edges = @ \cup {[src |-> s.id, rel |-> Upper(key), dst |-> t.id] : s \in S, t \in T}]

\* add_or_update_entity run to its end with no statement failing
RECURSIVE LinkAll(_, _, _, _)
LinkAll(G, u, e, i) ==
  IF i > Len(e.properties) THEN G
  ELSE LinkAll(LinkProperty(G, entity_type(e), e.name, u, e.properties[i][1], e.properties[i][2]), u, e, i + 1)

add_or_update_entity(G, u, e) == IF e.name = "" THEN G ELSE LinkAll(MergeEntity(G, entity_type(e), e.name, u, PropsMap(e.properties)), u, e, 1)

\* a graph without the node identities: labels and property maps of the
\* nodes with how many nodes carry them, and the relationships between them
NodeKey(n) == [label |-> n.label, props |-> n.props]
NodeOf(G, i) == CHOOSE n \in G.nodes : n.id = i
EdgeKey(G, r) == << NodeKey(NodeOf(G, r.src)), r.rel, NodeKey(NodeOf(G, r.dst)) >>
CanonGraph(G) ==
  [nodes |-> {<< NodeKey(n), Cardinality({m \in G.nodes : NodeKey(m) = NodeKey(n)}) >> : n \in G.nodes},
   edges |-> {<< EdgeKey(G, r), Cardinality({q \in G.edges : EdgeKey(G, q) = EdgeKey(G, r)}) >> : r \in G.edges}]

\* DatabaseHandler._create_descriptive_sentence   DatabaseHandler.py:49-61
RECURSIVE JoinProps(_, _)
JoinProps(ps, i) ==
  IF i > Len(ps) THEN ""
  ELSE (IF i = 1 THEN "" ELSE ", and ") \o "its " \o ps[i][1] \o " is " \o ps[i][2] \o JoinProps(ps, i + 1)

create_descriptive_sentence(e) ==
  IF e.properties = <<>> THEN entity_type(e) \o ": " \o e.name \o "."
  ELSE entity_type(e) \o ": " \o e.name \o " is an entity whose " \o JoinProps(e.properties, 1) \o "."

\* where the entity loop of _truncate_and_update_world_state stops next,
\* coming to entity i without an await: a dict with no name makes
\* add_or_update_entity return at once; on a value that is not a dict
\* entity.get raises (GraphHandler.py:78), the except clause of the loop
\* catches it and raises again at entity.get('name') (DatabaseHandler.py:124),
\* which leaves the consolidation; after the last entity comes the summary
RECURSIVE NextStop(_, _)
NextStop(es, i) ==
  IF i > Len(es) THEN [pc |-> "w_summarize", idx |-> 0]
  ELSE IF ~es[i].dict THEN [pc |-> "raised", idx |-> i]
  ELSE IF es[i].name = "" THEN NextStop(es, i + 1)
  ELSE [pc |-> "w_merge", idx |-> i]

\* as Init, with the handlers still to be set and every stored transcript at
\* the limit, so that the next add_message consolidates
InitWorld ==
  /\ doc = [u \in Users |-> Doc(Grown(u, HISTORY_LIMIT))]
  /\ handlersSet = FALSE
  /\ pc = [t \in Tasks |-> "idle"]
  /\ uid = [t \in Tasks |-> "u1"]
  /\ msg = [t \in Tasks |-> ""]
  /\ phase = [t \in Tasks |-> "user"]
  /\ cur = [t \in Tasks |-> <<>>]
  /\ truncCalled = [t \in Tasks |-> FALSE]
  /\ rewrote = [t \in Tasks |-> FALSE]
  /\ entities = [t \in Tasks |-> <<>>]
  /\ idx = [t \in Tasks |-> 0]
  /\ summary = [t \in Tasks |-> ""]
  /\ history = [t \in Tasks |-> <<>>]
  /\ resp = [t \in Tasks |-> ""]
  /\ sent = [t \in Tasks |-> ""]
  /\ InitWorldVars

transcript == << doc, handlersSet, msg, phase, cur, truncCalled, rewrote, summary, history, resp, sent >>

\* add_message on a transcript at the limit, with the handlers set, up to
\* the await of the extraction   DatabaseHandler.py:77-80, 100-111
w_consolidate(t) ==
  /\ pc[t] = "idle"
  /\ handlersSet
  /\ pass["t1"] + pass["t2"] < MaxPasses
  /\ \E u \in Senders(t) :
       /\ LimitReached(doc[u].history)
       /\ uid' = [uid EXCEPT ![t] = u]
  /\ pc' = [pc EXCEPT ![t] = "w_extract"]
  /\ pass' = [pass EXCEPT ![t] = @ + 1]
  /\ upserted' = [upserted EXCEPT ![t] = {}]
  /\ UNCHANGED << transcript, entities, idx, graph, vector, context, pending, pidx, failed, prev >>

\* the extraction comes back and the loop runs on to its first await
\* DatabaseHandler.py:111-119
w_extract_outcome(t, kind, list) ==
  /\ pc[t] = "w_extract"
  /\ LET es == extract_world_state_from_history(kind = "ok", list)
         stop == NextStop(es, 1)
     IN /\ entities' = [entities EXCEPT ![t] = es]
        /\ idx' = [idx EXCEPT ![t] = stop.idx]
        /\ pc' = [pc EXCEPT ![t] = stop.pc]
  /\ UNCHANGED << transcript, uid, graph, vector, context, pending, pidx, pass, upserted, failed, prev >>

w_extract(t) == \E kind \in ExtractionKinds, list \in WorldLists : w_extract_outcome(t, kind, list)

\* add_or_update_entity, the await of step 1: the statement runs, or
\* session.run raises and the except clause of the loop logs and goes on.
\* The call returns no node id, so `if node_id:` skips the vector upsert.
w_merge_outcome(t, ok) ==
  /\ pc[t] = "w_merge"
  /\ LET e == entities[t][idx[t]]
         more == ok /\ e.properties # <<>>
         stop == IF more THEN [pc |-> "w_link", idx |-> idx[t]] ELSE NextStop(entities[t], idx[t] + 1)
     IN /\ graph' = IF ok THEN MergeEntity(graph, entity_type(e), e.name, uid[t], PropsMap(e.properties)) ELSE graph
        /\ pidx' = [pidx EXCEPT ![t] = IF more THEN 1 ELSE 0]
        /\ upserted' = [upserted EXCEPT ![t] = IF ok /\ ~more THEN @ \cup {e.name} ELSE @]
        /\ failed' = [failed EXCEPT ![t] = @ \/ ~ok]
        /\ idx' = [idx EXCEPT ![t] = stop.idx]
        /\ pc' = [pc EXCEPT ![t] = stop.pc]
  /\ UNCHANGED << transcript, uid, entities, vector, context, pending, pass, prev >>

w_merge(t) == \E ok \in BOOLEAN : w_merge_outcome(t, ok)

\* add_or_update_entity, the await of step 2 for one item of properties
w_link_outcome(t, ok) ==
  /\ pc[t] = "w_link"
  /\ LET e == entities[t][idx[t]]
         more == ok /\ pidx[t] < Len(e.properties)
         stop == IF more THEN [pc |-> "w_link", idx |-> idx[t]] ELSE NextStop(entities[t], idx[t] + 1)
     IN /\ graph' = IF ok THEN LinkProperty(graph, entity_type(e), e.name, uid[t], e.properties[pidx[t]][1], e.properties[pidx[t]][2]) ELSE graph
        /\ pidx' = [pidx EXCEPT ![t] = IF more THEN @ + 1 ELSE 0]
        /\ upserted' = [upserted EXCEPT ![t] = IF ok /\ ~more THEN @ \cup {e.name} ELSE @]
        /\ failed' = [failed EXCEPT ![t] = @ \/ ~ok]
        /\ idx' = [idx EXCEPT ![t] = stop.idx]
        /\ pc' = [pc EXCEPT ![t] = stop.pc]
  /\ UNCHANGED << transcript, uid, entities, vector, context, pending, pass, prev >>

w_link(t) == \E ok \in BOOLEAN : w_link_outcome(t, ok)

\* the rest of the add_message (summary, rewrite and append, as in Spec);
\* the task is free for the next message
w_finish(t) ==
  /\ pc[t] = "w_summarize"
  /\ prev' = [prev EXCEPT ![t] = [valid |-> TRUE, uid |-> uid[t], list |-> entities[t], graph |-> CanonGraph(graph), vec |-> vec]]
  /\ pc' = [pc EXCEPT ![t] = "idle"]
  /\ entities' = [entities EXCEPT ![t] = <<>>]
  /\ UNCHANGED << transcript, uid, idx, graph, vector, context, pending, pidx, pass, upserted, failed >>

NextWorld ==
  \/ set_handlers
  \/ \E t \in Tasks :
       \/ w_consolidate(t)
       \/ w_extract(t)
       \/ w_merge(t)
       \/ w_link(t)
       \/ w_finish(t)

SpecWorld == InitWorld /\ [][NextWorld]_vars

\* ------------------------------------- VectorStoreHandler and the resets

\* n_results: int = 5   VectorStoreHandler.py:61
DEFAULT_N_RESULTS == 5

\* the users, texts, entry ids and result sizes the handler is called with;
\* the collection of the other user holds an entry from an earlier run
StoreUsers == {"u1"}
StoredCollections == [u \in Users |-> IF u \in StoreUsers THEN NoCollection ELSE [exists |-> TRUE, entries |-> {[id |-> "n3", text |-> "Item: Amulet.", embedding |-> <<4>>]}]]
VectorTexts == {create_descriptive_sentence(GildedMug), create_descriptive_sentence(BlorfHappy)}
EntryIds == {"n1", "n2"}
QuerySizes == {1, DEFAULT_N_RESULTS}

\* the embedding model: a vector for a text, the same text giving the same
\* vector; Distance is what the index ranks by
Embedding(text) == IF text = create_descriptive_sentence(GildedMug) THEN <<1>> ELSE <<4>>
Distance(a, b) == IF a[1] >= b[1] THEN a[1] - b[1] ELSE b[1] - a[1]

\* LLMHandler.generate_embedding: the vector, or [] when the call fails
generate_embedding(ok, text) == IF ok THEN Embedding(text) ELSE <<>>

\* a call that has ended: its method and arguments, whether it raised or
\* returned, the ids returned (none for a call that returns None), and the
\* line it logged
Result(op, u, text, id, raised, ids, log) == [op |-> op, user |-> u, text |-> text, id |-> id, raised |-> raised, ids |-> ids, log |-> log]

\* client.get_or_create_collection(name=f"user_{user_id}")
get_or_create_collection(v, u) == [v EXCEPT ![u].exists = TRUE]

\* collection.upsert(embeddings, documents, ids): one entry per id
upsert(coll, id, text, emb) == [coll EXCEPT !.entries = {e \in @ : e.id # id} \cup {[id |-> id, text |-> text, embedding |-> emb]}]

\* add_or_update_entry after the await of the embedding: an empty embedding
\* is skipped with a warning, a failing upsert (the collection may have been
\* deleted during the await) is logged; the call returns None in every case
\* VectorStoreHandler.py:42-59
add_or_update_entry(v, u, text, id, emb, storeOk) ==
  IF emb = <<>> THEN [vec |-> v, res |-> Result("upsert", u, text, id, FALSE, <<>>, "embedding_failed")]
  ELSE IF ~storeOk \/ ~v[u].exists THEN [vec |-> v, res |-> Result("upsert", u, text, id, FALSE, <<>>, "store_error")]
  ELSE [vec |-> [v EXCEPT ![u] = upsert(@, id, text, emb)], res |-> Result("upsert", u, text, id, FALSE, <<>>, "ok")]

\* an index that hands back any entries, near or far
Nearest_Unranked(entries, q, n) ==
  LET k == IF Cardinality(entries) < n THEN Cardinality(entries) ELSE n
  IN {[i \in 1..k |-> s[i].id] : s \in {r \in [1..k -> entries] : \A i, j \in 1..k : i # j => r[i] # r[j]}}

\* collection.query(query_embeddings=[q], n_results=n): the ids of the n
\* entries nearest to q, nearest first; entries at the same distance come in
\* any order
Nearest(entries, q, n) ==
  LET k == IF Cardinality(entries) < n THEN Cardinality(entries) ELSE n
      ranked == {r \in [1..k -> entries] :
                   /\ \A i, j \in 1..k : i # j => r[i] # r[j]
                   /\ \A i, j \in 1..k : i < j => Distance(r[i].embedding, q) <= Distance(r[j].embedding, q)
                   /\ \A e \in entries : (\A i \in 1..k : r[i] # e) => \A i \in 1..k : Distance(r[i].embedding, q) <= Distance(e.embedding, q)}
  IN {[i \in 1..k |-> s[i].id] : s \in ranked}

\* a query whose except clauses are missing: a store failure raises
query_Unguarded(v, u, text, n, emb, storeOk) ==
  IF emb = <<>> THEN {Result("query", u, text, "", FALSE, <<>>, "embedding_failed")}
  ELSE IF ~storeOk \/ ~v[u].exists THEN {Result("query", u, text, "", TRUE, <<>>, "store_error")}
  ELSE {Result("query", u, text, "", FALSE, ids, "ok") : ids \in Nearest(v[u].entries, emb, n)}

\* query after the await of the embedding: [] for an empty embedding, [] for
\* a failing collection.query, else results['ids'][0]
\* VectorStoreHandler.py:76-95
query(v, u, text, n, emb, storeOk) ==
  IF emb = <<>> THEN {Result("query", u, text, "", FALSE, <<>>, "embedding_failed")}
  ELSE IF ~storeOk \/ ~v[u].exists THEN {Result("query", u, text, "", FALSE, <<>>, "store_error")}
  ELSE {Result("query", u, text, "", FALSE, ids, "ok") : ids \in Nearest(v[u].entries, emb, n)}

\* a delete_user_collection without `except ValueError`: deleting what is
\* not there raises
delete_user_collection_Strict(v, u, storeOk) ==
  IF ~storeOk THEN [vec |-> v, res |-> Result("delete", u, "", "", FALSE, <<>>, "store_error")]
  ELSE IF ~v[u].exists THEN [vec |-> v, res |-> Result("delete", u, "", "", TRUE, <<>>, "not_found")]
  ELSE [vec |-> [v EXCEPT ![u] = NoCollection], res |-> Result("delete", u, "", "", FALSE, <<>>, "deleted")]

\* delete_user_collection: the collection goes with its entries; a missing
\* collection (ValueError) and any other failure are logged
\* VectorStoreHandler.py:97-108
delete_user_collection(v, u, storeOk) ==
  IF ~storeOk THEN [vec |-> v, res |-> Result("delete", u, "", "", FALSE, <<>>, "store_error")]
  ELSE IF ~v[u].exists THEN [vec |-> v, res |-> Result("delete", u, "", "", FALSE, <<>>, "not_found")]
  ELSE [vec |-> [v EXCEPT ![u] = NoCollection], res |-> Result("delete", u, "", "", FALSE, <<>>, "deleted")]

\* what the durable graph holds when the process starts
StoredGraph == add_or_update_entity(EmptyGraph, "u1", Blorf)

InitStores ==
  /\ doc = [u \in Users |-> Doc(Grown(u, HISTORY_LIMIT))]
  /\ handlersSet = FALSE
  /\ pc = [t \in Tasks |-> "idle"]
  /\ uid = [t \in Tasks |-> "u1"]
  /\ msg = [t \in Tasks |-> ""]
  /\ phase = [t \in Tasks |-> "user"]
  /\ cur = [t \in Tasks |-> <<>>]
  /\ truncCalled = [t \in Tasks |-> FALSE]
  /\ rewrote = [t \in Tasks |-> FALSE]
  /\ entities = [t \in Tasks |-> <<>>]
  /\ idx = [t \in Tasks |-> 0]
  /\ summary = [t \in Tasks |-> ""]
  /\ history = [t \in Tasks |-> <<>>]
  /\ resp = [t \in Tasks |-> ""]
  /\ sent = [t \in Tasks |-> ""]
  /\ graph = StoredGraph
  /\ vec = StoredCollections
  /\ pidx = [t \in Tasks |-> 0]
  /\ pass = [t \in Tasks |-> 0]
  /\ upserted = [t \in Tasks |-> {}]
  /\ failed = [t \in Tasks |-> FALSE]
  /\ prev = [t \in Tasks |-> NoPrev]
  /\ vcall = [t \in Tasks |-> NoCall]
  /\ vres = NoResult
  /\ gcall = [t \in Tasks |-> NoContextCall]
  /\ gres = NoContext
  /\ pending = NoPending

others == << doc, handlersSet, locals, graph, context, pending, pidx, pass, upserted, failed, prev >>

\* add_or_update_entry up to the await of the embedding: the collection is
\* fetched or created; a failure of that call is logged and the call returns
v_upsert_call(t) ==
  /\ pc[t] = "idle"
  /\ \E u \in StoreUsers, text \in VectorTexts, id \in EntryIds, storeOk \in BOOLEAN :
       IF storeOk
       THEN /\ vec' = get_or_create_collection(vec, u)
            /\ vcall' = [vcall EXCEPT ![t] = [op |-> "upsert", user |-> u, text |-> text, id |-> id, n |-> 0]]
            /\ pc' = [pc EXCEPT ![t] = "v_upsert"]
            /\ UNCHANGED vres
       ELSE /\ vres' = Result("upsert", u, text, id, FALSE, <<>>, "store_error")
            /\ UNCHANGED << vec, vcall, pc >>
  /\ UNCHANGED others

\* add_or_update_entry from the embedding to its return
v_upsert_outcome(t, embOk, storeOk) ==
  /\ pc[t] = "v_upsert"
  /\ LET c == vcall[t]
         r == add_or_update_entry(vec, c.user, c.text, c.id, generate_embedding(embOk, c.text), storeOk)
     IN /\ vec' = r.vec
        /\ vres' = r.res
        /\ pc' = [pc EXCEPT ![t] = IF r.res.raised THEN "raised" ELSE "idle"]
  /\ vcall' = [vcall EXCEPT ![t] = NoCall]
  /\ UNCHANGED others

v_upsert(t) == \E embOk, storeOk \in BOOLEAN : v_upsert_outcome(t, embOk, storeOk)

\* query up to the await of the embedding: the collection is fetched or
\* created; an empty collection, or a failure, returns []
\* VectorStoreHandler.py:69-74
v_query_call(t) ==
  /\ pc[t] = "idle"
  /\ \E u \in StoreUsers, text \in VectorTexts, n \in QuerySizes, storeOk \in BOOLEAN :
       IF storeOk /\ vec[u].entries # {}
       THEN /\ vcall' = [vcall EXCEPT ![t] = [op |-> "query", user |-> u, text |-> text, id |-> "", n |-> n]]
            /\ pc' = [pc EXCEPT ![t] = "v_query"]
            /\ UNCHANGED << vec, vres >>
       ELSE /\ vec' = IF storeOk THEN get_or_create_collection(vec, u) ELSE vec
            /\ vres' = Result("query", u, text, "", FALSE, <<>>, IF storeOk THEN "empty" ELSE "store_error")
            /\ UNCHANGED << vcall, pc >>
  /\ UNCHANGED others

\* query from the embedding to its return
v_query_outcome(t, embOk, storeOk, res) ==
  /\ pc[t] = "v_query"
  /\ res \in query(vec, vcall[t].user, vcall[t].text, vcall[t].n, generate_embedding(embOk, vcall[t].text), storeOk)
  /\ vres' = res
  /\ pc' = [pc EXCEPT ![t] = IF res.raised THEN "raised" ELSE "idle"]
  /\ vcall' = [vcall EXCEPT ![t] = NoCall]
  /\ UNCHANGED << vec, others >>

v_query(t) ==
  \E embOk, storeOk \in BOOLEAN :
     \E res \in query(vec, vcall[t].user, vcall[t].text, vcall[t].n, generate_embedding(embOk, vcall[t].text), storeOk) :
        v_query_outcome(t, embOk, storeOk, res)

\* delete_user_collection: no await inside
v_delete_outcome(t, u, storeOk) ==
  /\ pc[t] = "idle"
  /\ LET r == delete_user_collection(vec, u, storeOk)
     IN /\ vec' = r.vec
        /\ vres' = r.res
        /\ pc' = [pc EXCEPT ![t] = IF r.res.raised THEN "raised" ELSE "idle"]
  /\ UNCHANGED << vcall, others >>

v_delete(t) == \E u \in StoreUsers, storeOk \in BOOLEAN : v_delete_outcome(t, u, storeOk)

\* a handle_newgame that reseeds the transcript and then fails
handle_newgame_Partial(t, u, confirm) ==
  /\ pc[t] = "idle"
  /\ uid' = [uid EXCEPT ![t] = u]
  /\ msg' = [msg EXCEPT ![t] = IF confirm THEN "!newgame confirm" ELSE "!newgame"]
  /\ doc' = [doc EXCEPT ![u] = IF confirm THEN Doc(get_initial_history) ELSE @]
  /\ pc' = [pc EXCEPT ![t] = "raised"]
  /\ UNCHANGED << handlersSet, phase, cur, truncCalled, rewrote, entities, idx, summary, history, resp, sent, world >>

\* CommandHandler.handle_newgame for '!newgame' (line 120) and for
\* '!newgame confirm' (line 83): both read self.pending_confirmations, which
\* __init__ never creates, so an AttributeError leaves the handler before
\* any await; nothing is recorded, sent or reset, and the steps behind it
\* (lines 84-117, 121-126) are not reached
handle_newgame_of(t, u, confirm) ==
  /\ pc[t] = "idle"
  /\ ~pending.defined
  /\ uid' = [uid EXCEPT ![t] = u]
  /\ msg' = [msg EXCEPT ![t] = IF confirm THEN "!newgame confirm" ELSE "!newgame"]
  /\ pc' = [pc EXCEPT ![t] = "raised"]
  /\ UNCHANGED << doc, handlersSet, phase, cur, truncCalled, rewrote, entities, idx, summary, history, resp, sent, world >>

handle_newgame(t) == \E u \in StoreUsers, confirm \in BOOLEAN : handle_newgame_of(t, u, confirm)

\* the calls on the vector store, and the two '!newgame' handlers
NextStores ==
  \E t \in Tasks :
     \/ v_upsert_call(t)
     \/ v_upsert(t)
     \/ v_query_call(t)
     \/ v_query(t)
     \/ v_delete(t)
     \/ \E u \in StoreUsers : on_message_of(t, u, "!newgame")
     \/ reset_history(t)
     \/ reset_send(t)
     \/ handle_newgame(t)

SpecStores == InitStores /\ [][NextStores]_vars

\* ------------------------------------------ GraphHandler.get_entity_context

\* the graphs earlier consolidations can have left in the database
ContextGraphs ==
  {EmptyGraph,
   add_or_update_entity(EmptyGraph, "u1", GildedMug),
   add_or_update_entity(EmptyGraph, "u1", Blorf),
   add_or_update_entity(add_or_update_entity(EmptyGraph, "u1", GildedMug), "u1", Blorf),
   add_or_update_entity(add_or_update_entity(EmptyGraph, "u1", Blorf), "u2", BlorfHappy)}

\* the entity names get_entity_context is asked for
ContextNames == {EntityName(1), EntityName(2), "Nobody"}

\* record['rel_type'].replace('_', ' ').lower()
RelText(rel) == CASE rel = "WORKPLACE" -> "workplace" [] rel = "MOOD" -> "mood" [] rel = "NAME" -> "name" [] rel = "USERID" -> "userid" [] OTHER -> rel

\* the orders in which the elements of a set can come back
Orders(S) == {q \in [1..Cardinality(S) -> S] : \A i, j \in 1..Cardinality(S) : i # j => q[i] # q[j]}

\* MATCH (n {name, userId}) OPTIONAL MATCH (n)-[r]-(m) RETURN n, type(r), m:
\* one record for every relationship at a matched node, in either direction
ContextRows(G, u, name) ==
  {[n |-> n, rel |-> r.rel, m |-> NodeOf(G, IF r.src = n.id THEN r.dst ELSE r.src)] :
     << n, r >> \in {x \in MatchNodes(G, "", name, u) \X G.edges : x[1].id \in {x[2].src, x[2].dst}}}

\* the context of one main node: the heading, a line for every property but
\* name and userId, a line for every record with a relationship
ContextLines(G, u, name, main) ==
  LET head == "Here is what is known about " \o main.props["name"] \o " (a " \o main.label \o "):"
      keys == DOMAIN main.props \ {"name", "userId"}
      rows == ContextRows(G, u, name)
  IN {<< head >> \o [i \in 1..Cardinality(keys) |-> "- " \o main.props["name"] \o "'s " \o ko[i] \o " is " \o main.props[ko[i]] \o "."]
                 \o [i \in 1..Cardinality(rows) |-> "- " \o main.props["name"] \o " " \o RelText(ro[i].rel) \o " " \o ro[i].m.props["name"] \o "."] :
        ko \in Orders(keys), ro \in Orders(rows)}

\* how a call of get_entity_context ends
ContextResult(u, name, raised, value) == [op |-> "context", user |-> u, name |-> name, raised |-> raised, value |-> value]

\* a get_entity_context that catches the failure of the store and answers
\* as for an entity that is not there
get_entity_context_Masking(G, u, name, storeOk) ==
  IF ~storeOk THEN {ContextResult(u, name, FALSE, <<>>)}
  ELSE IF MatchNodes(G, "", name, u) = {} THEN {ContextResult(u, name, FALSE, <<>>)}
  ELSE {ContextResult(u, name, TRUE, <<>>)}
         \cup UNION {{ContextResult(u, name, FALSE, c) : c \in ContextLines(G, u, name, main)} : main \in {n \in MatchNodes(G, "", name, u) : n.label # ""}}

\* get_entity_context from the await of result.data(): a failure of the
\* store raises (nothing catches it); no record gives ""; else the first
\* record's node is the main node: list(main_node.labels)[0] raises on a
\* node without a label, and on the plain dict that data() hands back for a
\* node, and with a labelled node object the lines are joined
\* GraphHandler.py:44-66
get_entity_context(G, u, name, storeOk) ==
  IF ~storeOk THEN {ContextResult(u, name, TRUE, <<>>)}
  ELSE IF MatchNodes(G, "", name, u) = {} THEN {ContextResult(u, name, FALSE, <<>>)}
  ELSE {ContextResult(u, name, TRUE, <<>>)}
         \cup UNION {{ContextResult(u, name, FALSE, c) : c \in ContextLines(G, u, name, main)} : main \in {n \in MatchNodes(G, "", name, u) : n.label # ""}}

InitContext ==
  /\ doc = [u \in Users |-> Doc(Grown(u, HISTORY_LIMIT))]
  /\ handlersSet = FALSE
  /\ pc = [t \in Tasks |-> "idle"]
  /\ uid = [t \in Tasks |-> "u1"]
  /\ msg = [t \in Tasks |-> ""]
  /\ phase = [t \in Tasks |-> "user"]
  /\ cur = [t \in Tasks |-> <<>>]
  /\ truncCalled = [t \in Tasks |-> FALSE]
  /\ rewrote = [t \in Tasks |-> FALSE]
  /\ entities = [t \in Tasks |-> <<>>]
  /\ idx = [t \in Tasks |-> 0]
  /\ summary = [t \in Tasks |-> ""]
  /\ history = [t \in Tasks |-> <<>>]
  /\ resp = [t \in Tasks |-> ""]
  /\ sent = [t \in Tasks |-> ""]
  /\ graph \in ContextGraphs
  /\ vec = [u \in Users |-> NoCollection]
  /\ pidx = [t \in Tasks |-> 0]
  /\ pass = [t \in Tasks |-> 0]
  /\ upserted = [t \in Tasks |-> {}]
  /\ failed = [t \in Tasks |-> FALSE]
  /\ prev = [t \in Tasks |-> NoPrev]
  /\ vcall = [t \in Tasks |-> NoCall]
  /\ vres = NoResult
  /\ gcall = [t \in Tasks |-> NoContextCall]
  /\ gres = NoContext
  /\ pending = NoPending

\* get_entity_context up to the await of session.run: the query is sent, or
\* the driver raises   GraphHandler.py:30-42
g_context_call(t) ==
  /\ pc[t] = "idle"
  /\ \E u \in Users, name \in ContextNames, storeOk \in BOOLEAN :
       IF storeOk
       THEN /\ gcall' = [gcall EXCEPT ![t] = [user |-> u, name |-> name]]
            /\ pc' = [pc EXCEPT ![t] = "g_context"]
            /\ UNCHANGED gres
       ELSE /\ gres' = ContextResult(u, name, TRUE, <<>>)
            /\ pc' = [pc EXCEPT ![t] = "raised"]
            /\ UNCHANGED gcall
  /\ UNCHANGED << doc, handlersSet, locals, graph, vector, pending, pidx, pass, upserted, failed, prev >>

\* get_entity_context from the records to its end, for one outcome
g_context_outcome(t, storeOk, res) ==
  /\ pc[t] = "g_context"
  /\ res \in get_entity_context(graph, gcall[t].user, gcall[t].name, storeOk)
  /\ gres' = res
  /\ gcall' = [gcall EXCEPT ![t] = NoContextCall]
  /\ pc' = [pc EXCEPT ![t] = IF res.raised THEN "raised" ELSE "idle"]
  /\ UNCHANGED << doc, handlersSet, locals, graph, vector, pending, pidx, pass, upserted, failed, prev >>

g_context(t) ==
  \E storeOk \in BOOLEAN :
     \E res \in get_entity_context(graph, gcall[t].user, gcall[t].name, storeOk) :
        g_context_outcome(t, storeOk, res)

NextContext == \E t \in Tasks : g_context_call(t) \/ g_context(t)

SpecContext == InitContext /\ [][NextContext]_vars

\* ------------------------------------------------------------------ claims

\* the stored transcript of the user of task t, before and after a step
Stored(t) == doc[uid[t]].history
StoredAfter(t) == doc'[uid[t]].history

\* task t is inside the game loop of on_message (lines 55-68): from the call
\* of add_message for its user turn to the end of its send
InGameLoop(t) == pc[t] \in {"gh_ensure_get", "gh_ensure_set", "gh_get", "extract", "entity", "summarize", "overwrite", "am_ensure_get", "am_ensure_set", "am_update", "generate", "send"}

\* C1: immediately after every add_message returns, the stored transcript has
\* at most HISTORY_LIMIT turns.
C1_BoundAfterAppend == [][\A t \in Tasks : add_message_update(t) => Len(StoredAfter(t)) <= HISTORY_LIMIT]_vars

\* C2: a rewrite by consolidation of a transcript H of N >= HISTORY_LIMIT
\* turns stores exactly [H[0], a User summary turn, the Model acknowledgment]
\* followed by the last TURNS_TO_KEEP turns of H in their order.
C2_RewriteShape ==
  [][\A t \in Tasks :
        (overwrite_history(t) /\ rewrote'[t]) =>
          LET H == cur[t]
              N == Len(cur[t])
              R == StoredAfter(t)
          IN /\ N >= HISTORY_LIMIT
             /\ Len(R) = TURNS_TO_KEEP + 3
             /\ R[1] = H[1]
             /\ R[2].role = "user"
             /\ R[2] \in {Turn("user", "[The story so far: " \o x \o "]") : x \in {Strip(y) : y \in SummaryTexts} \cup {SUMMARY_PLACEHOLDER}}
             /\ R[3] = Turn("model", SUMMARY_ACK)
             /\ \A i \in 1..TURNS_TO_KEEP : R[3 + i] = H[N - TURNS_TO_KEEP + i]
    ]_vars

\* C2 witness: a consolidation has just rewritten a transcript that no other
\* task wrote to in between.
C2_Witness == \E t \in Tasks : pc[t] = "am_ensure_get" /\ rewrote[t] /\ Len(Stored(t)) = TURNS_TO_KEEP + 3 /\ \A o \in Tasks \ {t} : pc[o] = "idle"

\* C3: a turn appended while a consolidation is between its read and its
\* rewrite is still in the transcript after the rewrite, behind the
\* rewritten content.
C3_NoAppendLost ==
  [][\A t \in Tasks :
        (/\ overwrite_history(t)
         /\ rewrote'[t]
         /\ Len(Stored(t)) > Len(cur[t])
         /\ SubSeq(Stored(t), 1, Len(cur[t])) = cur[t])
        => \A i \in (Len(cur[t]) + 1)..Len(Stored(t)) :
             \E j \in (TURNS_TO_KEEP + 4)..Len(StoredAfter(t)) : StoredAfter(t)[j] = Stored(t)[i]
    ]_vars

\* C4: no two tasks of the same user are inside the game loop at once.
C4_MutualExclusion == \A t1, t2 \in Tasks : (t1 # t2 /\ InGameLoop(t1) /\ InGameLoop(t2)) => uid[t1] # uid[t2]

\* C5: the seeding of _ensure_user_document_exists never overwrites a turn
\* already appended: what was stored is a prefix of what is stored after it.
C5_SeedNeverOverwrites == [][\A t \in Tasks : ensure_set(t) => (Len(Stored(t)) <= Len(StoredAfter(t)) /\ SubSeq(StoredAfter(t), 1, Len(Stored(t))) = Stored(t))]_vars

\* C6: a successful add_message on a transcript below the limit stores the
\* old transcript with exactly the new turn added at the end, also when an
\* equal turn is already in the transcript.
C6_AppendExact == [][\A t \in Tasks : (add_message_update(t) /\ Len(Stored(t)) < HISTORY_LIMIT) => StoredAfter(t) = Append(Stored(t), NewTurn(t))]_vars

\* C7: add_message calls consolidation exactly when the transcript it reads
\* has HISTORY_LIMIT turns or more, and its new turn, written after the
\* consolidation, is then the last element of the stored transcript.
C7_ConsolidateThenAppendLast ==
  [][\A t \in Tasks :
        /\ (get_history(t) /\ phase[t] # "gen") => (truncCalled'[t] <=> Len(Stored(t)) >= HISTORY_LIMIT)
        /\ (add_message_update(t) /\ truncCalled[t]) => StoredAfter(t)[Len(StoredAfter(t))] = NewTurn(t)
    ]_vars

\* C8 as stated: with HISTORY_LIMIT = 100 and TURNS_TO_KEEP = 6 an
\* add_message that reads a transcript of 99 turns fires consolidation, and
\* its append to those 99 turns leaves exactly 10 turns.
C8_Original ==
  [][\A t \in Tasks :
        /\ HISTORY_LIMIT = 100
        /\ TURNS_TO_KEEP = 6
        /\ (get_history(t) /\ phase[t] # "gen" /\ Len(Stored(t)) = 99) => truncCalled'[t]
        /\ (add_message_update(t) /\ Len(Stored(t)) = 99 /\ \A o \in Tasks \ {t} : pc[o] = "idle") => Len(StoredAfter(t)) = 10
    ]_vars

\* C8 amended: with HISTORY_LIMIT = 100 and TURNS_TO_KEEP = 6 an add_message
\* that reads 99 turns does not fire consolidation and its append leaves at
\* most 100 turns; consolidation fires when it reads 100 turns; a rewrite of
\* 100 turns stores exactly 9 turns (1 head + 2 summary pair + 6 tail); the
\* append to those 9 turns leaves 10 turns, or 9 when an equal turn is
\* already among them.
C8_Amended ==
  [][\A t \in Tasks :
        /\ HISTORY_LIMIT = 100
        /\ TURNS_TO_KEEP = 6
        /\ (get_history(t) /\ phase[t] # "gen" /\ Len(Stored(t)) = 99) => (~truncCalled'[t] /\ pc'[t] = "am_ensure_get")
        /\ (get_history(t) /\ phase[t] # "gen" /\ Len(Stored(t)) = 100) => truncCalled'[t]
        /\ (add_message_update(t) /\ Len(Stored(t)) = 99) => Len(StoredAfter(t)) <= 100
        /\ (overwrite_history(t) /\ rewrote'[t] /\ Len(cur[t]) = 100) => Len(StoredAfter(t)) = 9
        /\ (add_message_update(t) /\ rewrote[t] /\ Len(Stored(t)) = 9) =>
             Len(StoredAfter(t)) = (IF \E i \in 1..9 : Stored(t)[i] = NewTurn(t) THEN 9 ELSE 10)
    ]_vars

\* C8 witness: the add_message of a user turn read 100 turns, consolidation
\* rewrote them, and the append has left 10 turns ending in the new turn.
C8_Witness == \E t \in Tasks : pc[t] = "gh_ensure_get" /\ phase[t] = "gen" /\ Len(Stored(t)) = 10 /\ Stored(t)[3] = Turn("model", SUMMARY_ACK) /\ Stored(t)[10] = Turn("user", full_user_message(uid[t], msg[t])) /\ \A o \in Tasks \ {t} : pc[o] = "idle"

\* C9: every existing transcript begins with the system-framing pair: the
\* User turn with the persona prompt, then the fixed Model acknowledgment.
C9_FramingPair == \A u \in Users : doc[u].exists => (Len(doc[u].history) >= 2 /\ doc[u].history[1] = Turn("user", SYSTEM_PROMPT) /\ doc[u].history[2] = Turn("model", INITIAL_ACK))

\* C10: when the summary generation fails the consolidation goes on in the
\* same add_message: the placeholder is the summary, the history is kept,
\* the next step is the rewrite, and a rewrite stores the summary turn built
\* from that text.
C10_PlaceholderOnFailure ==
  [][\A t \in Tasks :
        /\ (\E text \in SummaryTexts : summarize_outcome(t, FALSE, text)) =>
             /\ summary'[t] = SUMMARY_PLACEHOLDER
             /\ pc'[t] = "overwrite"
             /\ cur'[t] = cur[t]
             /\ cur[t] # <<>>
             /\ truncCalled'[t]
        /\ (overwrite_history(t) /\ rewrote'[t]) =>
             StoredAfter(t)[2] = Turn("user", "[The story so far: " \o summary[t] \o "]")
    ]_vars

\* C10 witness: a consolidation whose summary failed has rewritten the
\* transcript with the placeholder as the story so far.
C10_Witness == \E t \in Tasks : pc[t] = "am_ensure_get" /\ rewrote[t] /\ Len(Stored(t)) = TURNS_TO_KEEP + 3 /\ Stored(t)[2] = Turn("user", "[The story so far: [Summary could not be generated due to an error.]]")

\* C11: an extraction that fails, or that returns something other than an
\* object holding a list of entity objects, counts as zero entities: the
\* consolidation goes straight on to the summary, writes nothing to the
\* graph or the vector store, and raises nothing
C11_FailedExtractionIsEmpty ==
  [][\A t \in Tasks : \A kind \in ExtractionKinds, list \in WorldLists :
        (w_extract_outcome(t, kind, list) /\ (kind # "ok" \/ \E i \in DOMAIN list : ~list[i].dict)) =>
           /\ entities'[t] = <<>>
           /\ pc'[t] = "w_summarize"
           /\ graph' = graph
           /\ vec' = vec
    ]_vars

\* C12: whatever fails on one entity (a graph statement raising, the entity
\* being malformed), the loop goes on to the next entity that has a graph
\* statement to run, or to the summary after the last one; it never leaves
\* the consolidation
C12_EntityFailureIsolated ==
  [][\A t \in Tasks :
        (w_extract(t) \/ w_merge(t) \/ w_link(t)) =>
           /\ pc'[t] \in {"w_merge", "w_link", "w_summarize"}
           /\ pc'[t] = "w_summarize" => \A i \in DOMAIN entities'[t] : i > idx[t] => entities'[t][i].name = ""
    ]_vars

\* C13: add_message never returns normally from a call in which a write to
\* the transcript store failed, the overwrite of the consolidation included
C13_StoreFailureReported ==
  [][\A t \in Tasks : add_message_update(t) => ~(truncCalled[t] /\ handlersSet /\ ~rewrote[t])]_vars

\* C14: at the end of the entity loop, every named entity whose graph upsert
\* returned without an error (no embedding having failed) has exactly one
\* entry in the user's vector collection, and the id of that entry is the
\* identity of the entity's graph node
C14_VectorEntryPerEntity ==
  \A t \in Tasks : pc[t] = "w_summarize" =>
     \A i \in DOMAIN entities[t] :
        entities[t][i].name \in upserted[t] =>
           LET entries == {v \in vec[uid[t]].entries : v.text = create_descriptive_sentence(entities[t][i])}
           IN /\ Cardinality(entries) = 1
              /\ \A v \in entries : \E n \in MatchNodes(graph, "", entities[t][i].name, uid[t]) : v.id = n.id

\* C15: the graph never holds two nodes with the same userId and name
C15_OneNodePerKey ==
  \A n1, n2 \in graph.nodes :
     (n1.props["userId"] = n2.props["userId"] /\ n1.props["name"] = n2.props["name"]) => n1 = n2

\* the nodes the calls for entity e have made: on a graph that began empty
\* they are the nodes with e's label (a relationship target has no label)
EntityNodes(e) == {n \in graph.nodes : n.label = entity_type(e)}

\* a task has run two consolidations on the empty graph, one after the
\* other, each of one entity with a name, and no graph statement raised
TwoCalls(t) ==
  /\ pc[t] = "w_summarize" /\ pass[t] = MaxPasses /\ ~failed[t]
  /\ prev[t].valid /\ prev[t].uid = uid[t] /\ Len(prev[t].list) = 1 /\ Len(entities[t]) = 1
  /\ prev[t].list[1].name # "" /\ entities[t][1].name # ""

\* C16: after two upserts with the same userId, name and type there is one
\* node for the entity; it holds the second call's value for every property
\* of the second call and the first call's value for every other property
\* of the first call
C16_MergeKeepsOneNode ==
  \A t \in Tasks :
     (TwoCalls(t) /\ prev[t].list[1].name = entities[t][1].name /\ prev[t].list[1].type = entities[t][1].type) =>
        LET P1 == PropsMap(prev[t].list[1].properties)
            P2 == PropsMap(entities[t][1].properties)
        IN /\ Cardinality(EntityNodes(entities[t][1])) = 1
           /\ \A n \in EntityNodes(entities[t][1]) :
                /\ \A k \in DOMAIN P2 : n.props[k] = P2[k]
                /\ \A k \in DOMAIN P1 \ DOMAIN P2 : n.props[k] = P1[k]

\* C17: the relationship statement of a property never creates a node, and
\* it creates a relationship only when a node with the property's value as
\* its name was already in the user's scope
C17_EdgeOnlyToExistingEntity ==
  [][\A t \in Tasks :
        w_link_outcome(t, TRUE) =>
           /\ graph'.nodes = graph.nodes
           /\ graph'.edges # graph.edges =>
                MatchNodes(graph, "", entities[t][idx[t]].properties[pidx[t]][2], uid[t]) # {}
    ]_vars

\* C18: a task that runs the entity loop a second time with the same entity
\* list, nothing else having touched the stores and no statement having
\* raised, ends with the graph and the vector collections as they were at
\* the end of the first run
C18_ReplayIdempotent ==
  \A t \in Tasks :
     (pc[t] = "w_summarize" /\ pass[t] = MaxPasses /\ ~failed[t] /\ prev[t].valid /\ prev[t].uid = uid[t] /\ prev[t].list = entities[t]) =>
        /\ CanonGraph(graph) = prev[t].graph
        /\ vec = prev[t].vec

\* C19: when two concurrent consolidations of one user have each upserted
\* one entity on the empty graph and no statement raised, the graph is what
\* the two calls give one after the other, in either order
C19_UpsertsCommute ==
  \A t1, t2 \in Tasks :
     (/\ t1 # t2 /\ uid[t1] = uid[t2]
      /\ \A t \in {t1, t2} : pc[t] = "w_summarize" /\ pass[t] = 1 /\ ~failed[t] /\ Len(entities[t]) = 1 /\ entities[t][1].name # "") =>
        /\ CanonGraph(graph) = CanonGraph(add_or_update_entity(add_or_update_entity(EmptyGraph, uid[t1], entities[t1][1]), uid[t1], entities[t2][1]))
        /\ CanonGraph(graph) = CanonGraph(add_or_update_entity(add_or_update_entity(EmptyGraph, uid[t1], entities[t2][1]), uid[t1], entities[t1][1]))

\* what user u owns: the stored transcript, the graph nodes of u's scope
\* with the relationships at them, and u's vector collection
UserNodes(G, u) == {n \in G.nodes : n.props["userId"] = u}
UserView(d, G, v, u) ==
  [doc |-> d[u],
   nodes |-> UserNodes(G, u),
   edges |-> {r \in G.edges : \E n \in UserNodes(G, u) : n.id \in {r.src, r.dst}},
   vec |-> v[u]]

\* C20: a step of a consolidation run for one user changes nothing that
\* another user owns
C20_UserIsolation ==
  [][\A t \in Tasks :
        (w_consolidate(t) \/ w_extract(t) \/ w_merge(t) \/ w_link(t) \/ w_finish(t)) =>
           \A u \in Users \ {uid'[t]} : UserView(doc', graph', vec', u) = UserView(doc, graph, vec, u)
    ]_vars

\* what the caller of a VectorStoreHandler method can see of a call: whether
\* it raised and what it returned (the log line is not handed to the caller)
Visible(r) == << r.raised, r.ids >>

\* C21: when the embedding provider fails during add_or_update_entry, the
\* call signals the failure to its caller (what the caller sees differs from
\* what it sees of the same call succeeding) and the call writes no entry.
C21_EmbeddingFailureSignalled ==
  [][\A t \in Tasks : \A storeOk \in BOOLEAN :
       v_upsert_outcome(t, FALSE, storeOk)
         => /\ vec'[vcall[t].user].entries = vec[vcall[t].user].entries
            /\ Visible(vres') # Visible(add_or_update_entry(vec, vcall[t].user, vcall[t].text, vcall[t].id, Embedding(vcall[t].text), TRUE).res)]_vars

\* the query task t is in answers an add_or_update_entry that stored its
\* entry, for the same user and text and for one result, and no other call
\* on the store has returned since that entry was stored
FollowsUpsert(t) ==
  /\ vres.op = "upsert"
  /\ vres.log = "ok"
  /\ vres.user = vcall[t].user
  /\ vres.text = vcall[t].text
  /\ vcall[t].n = 1

\* the entries of the queried namespace that embed to the vector of the
\* text of t's query under another id than the one just stored
SameEmbedding(t) == {e \in vec[vcall[t].user].entries : e.embedding = Embedding(vcall[t].text) /\ e.id # vres.id}

\* C22 as stated: a successful add_or_update_entry(user, text, id) followed
\* immediately by query(user, text, 1) returns [id], whatever the namespace
\* holds besides.
C22_Original ==
  [][\A t \in Tasks : \A embOk, storeOk \in BOOLEAN :
       \A res \in query(vec, vcall[t].user, vcall[t].text, vcall[t].n, generate_embedding(embOk, vcall[t].text), storeOk) :
          (v_query_outcome(t, embOk, storeOk, res) /\ FollowsUpsert(t)) => res.ids = << vres.id >>]_vars

\* C22 amended: a successful add_or_update_entry(user, text, id) followed
\* immediately by a query(user, text, 1) whose embedding and store calls
\* succeed returns [id], provided no entry of the namespace under another id
\* has the same embedding as the text.
C22_Amended ==
  [][\A t \in Tasks :
       \A res \in query(vec, vcall[t].user, vcall[t].text, vcall[t].n, generate_embedding(TRUE, vcall[t].text), TRUE) :
          (v_query_outcome(t, TRUE, TRUE, res) /\ FollowsUpsert(t) /\ SameEmbedding(t) = {}) => res.ids = << vres.id >>]_vars

\* a query for the text just stored is in flight on a namespace that holds a
\* second entry, farther from the text
C22_Witness ==
  \E t \in Tasks :
     /\ pc[t] = "v_query"
     /\ FollowsUpsert(t)
     /\ SameEmbedding(t) = {}
     /\ Cardinality(vec[vcall[t].user].entries) = 2

\* C23: VectorStoreHandler.query never raises; it returns the empty list when
\* the namespace has no entries, when the query embedding fails or when the
\* store fails, and otherwise at most n_results ids, every one of them the id
\* of an entry of that user's namespace.
C23_QueryNeverRaises ==
  [][\A t \in Tasks :
       /\ (v_query_call(t) /\ pc'[t] = "idle") => (vres'.op = "query" /\ ~vres'.raised /\ vres'.ids = <<>>)
       /\ (v_query_call(t) /\ pc'[t] = "v_query") => vec[vcall'[t].user].entries # {}
       /\ \A embOk, storeOk \in BOOLEAN :
            \A res \in query(vec, vcall[t].user, vcall[t].text, vcall[t].n, generate_embedding(embOk, vcall[t].text), storeOk) :
               v_query_outcome(t, embOk, storeOk, res)
                 => /\ ~vres'.raised
                    /\ pc'[t] = "idle"
                    /\ (~embOk \/ ~storeOk) => vres'.ids = <<>>
                    /\ Len(vres'.ids) <= vcall[t].n
                    /\ \A i \in 1..Len(vres'.ids) : \E e \in vec[vcall[t].user].entries : e.id = vres'.ids[i]]_vars

\* a query whose store call failed after its embedding has returned the empty
\* list over a namespace that holds entries
C23_Witness ==
  /\ vres.op = "query"
  /\ vres.log = "store_error"
  /\ ~vres.raised
  /\ vres.ids = <<>>
  /\ vec[vres.user].entries # {}

\* what query(u, text, n) can return on the collections v when the embedding
\* and the store work: [] for a namespace without entries, else the ids found
QueryResults(v, u, text, n) ==
  IF v[u].entries = {} THEN {<<>>}
  ELSE {res.ids : res \in query(v, u, text, n, Embedding(text), TRUE)}

\* C24: when the '!newgame' flow of a user completes, the user's transcript
\* is exactly the two-turn seed and a vector query for that user returns the
\* empty sequence for every text.
C24_ResetClearsTranscriptAndVectors ==
  [][\A t \in Tasks :
       reset_send(t)
         => /\ doc'[uid[t]] = Doc(get_initial_history)
            /\ \A text \in VectorTexts, n \in QuerySizes : QueryResults(vec', uid[t], text, n) = {<<>>}]_vars

\* C25: when a reset of a user completes, the graph holds no node and no
\* relationship of that user.
C25_ResetClearsGraph ==
  [][\A t \in Tasks :
       reset_send(t) => UserView(doc', graph', vec', uid[t]).nodes = {} /\ UserView(doc', graph', vec', uid[t]).edges = {}]_vars

\* C26: a reset performed on a user whose data a reset has already removed
\* leaves the transcript, the graph and the collections as they are and does
\* not fail: reset_history on a seeded transcript, delete_user_collection on
\* a collection that is not there.
C26_ResetIdempotent ==
  [][\A t \in Tasks :
       /\ (reset_history(t) /\ doc[uid[t]] = Doc(get_initial_history))
            => (doc' = doc /\ graph' = graph /\ vec' = vec /\ pc'[t] = "reset_send")
       /\ \A u \in StoreUsers, storeOk \in BOOLEAN :
            (v_delete_outcome(t, u, storeOk) /\ ~vec[u].exists)
              => (doc' = doc /\ graph' = graph /\ vec' = vec /\ ~vres'.raised /\ pc'[t] = "idle")]_vars

\* a second '!newgame' of a user has reset the seeded transcript again after
\* the first one completed, and a delete_user_collection has found the
\* collection gone
C26_Witness ==
  \E t, o \in Tasks :
     /\ pc[o] = "done"
     /\ pc[t] = "reset_send"
     /\ uid[t] = uid[o]
     /\ doc[uid[t]] = Doc(get_initial_history)
     /\ vres.op = "delete"
     /\ vres.log = "not_found"
     /\ ~vres.raised

\* C27: whenever the generation fails in a turn, the add_message that
\* follows appends a model turn with the fallback text as the last turn of
\* the transcript, and the fallback text is what the user is sent; also when
\* the turn before failed in the same way.
C27_FallbackTurnAppended ==
  [][\A t \in Tasks :
       /\ (add_message_update(t) /\ phase[t] = "model" /\ resp[t] = GENERATION_FALLBACK)
            => /\ Len(StoredAfter(t)) = Len(Stored(t)) + 1
               /\ StoredAfter(t)[Len(StoredAfter(t))] = Turn("model", GENERATION_FALLBACK)
       /\ (send(t) /\ resp[t] = GENERATION_FALLBACK) => sent'[t] = GENERATION_FALLBACK]_vars

\* the game turn of task t has ended: on_message returned after its send, or
\* an exception left it
TurnEnded(t) == pc[t] \in {"done", "raised"} /\ msg[t] # "!newgame"

\* C28: every game turn that ends has delivered one message to the user: the
\* generated answer or a fixed in-character line; no turn ends without a
\* message.
C28_TurnEndsWithOneMessage ==
  \A t \in Tasks :
     TurnEnded(t) => (sent[t] # "" /\ sent[t] \in {resp[t], GENERATION_FALLBACK, SILENCE_MESSAGE})

\* C29: the generation call of a turn is made only after a
\* VectorStoreHandler.query for the turn's user and message text has
\* returned (its ids are what the context is built from).
C29_GenerationAfterRetrieval ==
  [][\A t \in Tasks :
       generate(t) => (vres.op = "query" /\ ~vres.raised /\ vres.user = uid[t] /\ vres.text = msg[t])]_vars

\* C30: in a game turn the user turn is written (add_message returns) before
\* the generation call, the generation call comes before the write of the
\* model turn, and the text is sent only after the model turn was written.
C30_TurnOrder ==
  [][\A t \in Tasks :
       /\ (phase'[t] = "gen" /\ phase[t] # "gen")
            => (add_message_update(t) /\ phase[t] = "user" /\ \E i \in 1..Len(StoredAfter(t)) : StoredAfter(t)[i] = Turn("user", full_user_message(uid[t], msg[t])))
       /\ (phase'[t] = "model" /\ phase[t] # "model") => (generate(t) /\ phase[t] = "gen")
       /\ (pc'[t] = "send" /\ pc[t] # "send")
            => (add_message_update(t) /\ phase[t] = "model" /\ \E i \in 1..Len(StoredAfter(t)) : StoredAfter(t)[i] = Turn("model", resp[t]))
       /\ (sent'[t] # sent[t] /\ msg[t] # "!newgame") => (pc[t] = "send" /\ phase[t] = "model")]_vars

\* a game turn has sent the generated answer after all four steps
C30_Witness ==
  \E t \in Tasks :
     /\ pc[t] = "done"
     /\ msg[t] # "!newgame"
     /\ phase[t] = "model"
     /\ resp[t] # ""
     /\ sent[t] = resp[t]
     /\ \E i \in 1..Len(Stored(t)) : Stored(t)[i] = Turn("model", resp[t])

\* C31: get_entity_context returns the empty string only when no node of
\* that name exists in the user's scope; when the graph store fails, the call
\* ends in an error and never in the empty string.
C31_UnreachableIsNotNotFound ==
  [][\A t \in Tasks :
       /\ (g_context_call(t) /\ pc'[t] # "g_context") => gres'.raised
       /\ \A storeOk \in BOOLEAN :
            \A res \in get_entity_context(graph, gcall[t].user, gcall[t].name, storeOk) :
               g_context_outcome(t, storeOk, res)
                 => /\ ~storeOk => gres'.raised
                    /\ (~gres'.raised /\ gres'.value = <<>>) => UserNodes(graph, gcall[t].user) \cap {n \in graph.nodes : n.props["name"] = gcall[t].name} = {}]_vars

\* the store has failed under a lookup of an entity that is in the graph,
\* and the call has raised
C31_Witness ==
  /\ gres.op = "context"
  /\ gres.raised
  /\ gres.user = "u1"
  /\ gres.name = EntityName(2)
  /\ MatchNodes(graph, "", EntityName(2), "u1") # {}
  /\ \E t \in Tasks : pc[t] = "raised"

\* the transcript, the graph and the collections
Stores == << doc, graph, vec >>

UserTurn(t) == Turn("user", full_user_message(uid[t], msg[t]))

\* C33: the history handed to generate_response ends with the user turn of
\* the message being answered, whatever the message text and whatever other
\* turns of the same user are in flight.
C33_PromptEndsWithUserTurn ==
  [][\A t \in Tasks :
       generate(t) => (history[t] # <<>> /\ history[t][Len(history[t])] = UserTurn(t))]_vars

\* C34: the text of the model turn written for a turn equals the text
\* delivered to the user, also when the generated response is empty.
C34_WrittenEqualsDelivered ==
  [][\A t \in Tasks : send(t) => sent'[t] = resp[t]]_vars

\* a '!newgame' of the user of task t has reseeded the transcript
ResetDone(t) == \E o \in Tasks \ {t} : uid[o] = uid[t] /\ msg[o] = "!newgame" /\ pc[o] \in {"reset_send", "done"}

\* C36: when a reset of the user has completed by the time a game turn
\* writes its model turn, the transcript is then the seed pair alone or the
\* seed pair followed by the turn's user turn and its model turn; a model
\* turn never stands without the user turn it answers.
C36_NoOrphanModelTurn ==
  [][\A t \in Tasks :
       (add_message_update(t) /\ phase[t] = "model" /\ ResetDone(t))
         => StoredAfter(t) \in {get_initial_history, get_initial_history \o << UserTurn(t), Turn("model", resp[t]) >>}]_vars

\* the identities of the nodes that step 1 of add_or_update_entity writes
\* on graph G: the nodes its MERGE pattern matches, or the one it creates
MergedIds(G, label, name, u) == IF MatchNodes(G, label, name, u) = {} THEN {G.next} ELSE {n.id : n \in MatchNodes(G, label, name, u)}

\* C37: add_or_update_entity never changes the identity key of a node: after
\* step 1, whatever the property map holds, the name and the userId of the
\* upserted node are the entity name and the user id of the call.
C37_IdentityKeyKept ==
  [][\A t \in Tasks :
       w_merge_outcome(t, TRUE)
         => \A n \in graph'.nodes :
              n.id \in MergedIds(graph, entity_type(entities[t][idx[t]]), entities[t][idx[t]].name, uid[t])
                => (n.props["name"] = entities[t][idx[t]].name /\ n.props["userId"] = uid[t])]_vars

\* roles alternate in h, starting with the user
Alternates(h) == (h # <<>> => h[1].role = "user") /\ \A i \in 1..(Len(h) - 1) : h[i].role # h[i + 1].role

\* no two turns have overlapped: one task at most has left idle
SequentialTurns == \E t \in Tasks : \A o \in Tasks \ {t} : pc[o] = "idle"

\* C38: sequential turns keep the roles of a transcript alternating,
\* starting with the user: a consolidation of an alternating transcript
\* stores an alternating transcript, and so does the append of a turn to an
\* alternating transcript that ends with the other role.
C38_RolesAlternate ==
  [][SequentialTurns =>
       \A t \in Tasks :
          /\ (overwrite_history(t) /\ Alternates(Stored(t))) => Alternates(StoredAfter(t))
          /\ (add_message_update(t) /\ Alternates(Stored(t)) /\ Stored(t) # <<>> /\ Stored(t)[Len(Stored(t))].role # NewTurn(t).role)
               => Alternates(StoredAfter(t))]_vars

====
